---- MODULE Spec2Model ----
(***************************************************************************)
(* Model of spire/common/exception.hpp: the Exception base class, the      *)
(* Error<Tag, Base> kind template with its typedefs, and the CHECK and     *)
(* WIN_CHECK macros.                                                       *)
(*                                                                         *)
(* The program modelled is one try block and the handlers above it.  The   *)
(* block owns two locals, "e" and "c" (a copy or move target of "e"), and  *)
(* WIN_CHECK owns the temporary "t".  A throw copy-initialises the         *)
(* exception object "x" from its operand, using the operand's STATIC type, *)
(* and unwinds the block (the locals are destroyed).  Handlers catch "x"   *)
(* by reference, may append or attach to it and rethrow it.                *)
(*                                                                         *)
(* The bodies of Exception's constructors, operator<< and what() are in a  *)
(* translation unit that is not part of the header; they are modelled from *)
(* the documented contract.  The boost::format overloads reduce to the     *)
(* std::string ones through msg.str() and are not modelled separately.     *)
(***************************************************************************)
EXTENDS Integers, Sequences, FiniteSets, TLC

\* ------------------------------------------------------------------ bounds
\* Longest message a user-written append may produce.
MaxLen == 3
\* Number of handler frames above the try block.
MaxFrames == 2
\* Number of constructions, copies, moves, appends and attachments in a run.
MaxOps == 3

\* ------------------------------------------------------- values and types
\* Strings passed to a constructor or to operator<<.
Strs == {<<>>, <<"a">>, <<"b">>}
\* Source texts of the expressions given to CHECK / WIN_CHECK (#expr).
Descs == {<<"x", ">", "0">>, <<"f", "(", ")">>}
\* Faulty variant: the literal without its trailing space.
AssertPrefixNoSpace == <<"A", "s", "s", "e", "r", "t", " ", "f", "a", "i", "l", "e", "d", ":">>

\* The literal "Assert failed: " of both macros.
AssertPrefix == <<"A", "s", "s", "e", "r", "t", " ", "f", "a", "i", "l", "e", "d", ":", " ">>

\* Objects: the locals e and c, the WIN_CHECK temporary t, the exception
\* object x.
Roles == {"e", "c", "t", "x"}
Locals == {"e", "c"}

\* The classes of the hierarchy.
Types == {"Exception", "SystemError", "DataError", "RuntimeError", "Win32Error"}
\* The classes a call site can construct (Exception's constructor is protected).
Kinds == Types \ {"Exception"}

\* error_info tags: Win32ErrorInfo and one other boost::error_info tag.
Tags == {"Win32ErrorInfo", "OtherInfo"}
\* DWORD values used as thread last-error codes and as attached values.
Codes == {0, 2, 5}
\* Values a call site attaches under a tag.
AttachVals == {0, 5}
\* Codes a failing Win32 call stores with SetLastError.
FailCodes == {2, 5}
\* Result of a lookup that finds nothing (get_error_info returns a null pointer).
Absent == -1

VARIABLES
    objs,       \* role -> [state, kind (dynamic type), ctx, buf (message buffer id)]
    bufs,       \* message buffer id -> text (std::string storage)
    chain,      \* the full-expression being evaluated: object, static type, constness
    phase,      \* "build", "wincheck", "thrown", "handling", "done"
    frame,      \* handler frames the exception has passed
    handler,    \* declared type of the active handler's parameter
    raised,     \* class of the object the thrown expression denotes; whether the
                \* expression is a chain of << on a just-constructed object
    lastError,  \* the thread's last-error code (GetLastError)
    wc,         \* WIN_CHECK in progress
    ops,        \* constructions, copies, moves, appends and attachments so far
    last        \* the operation just performed

vars == <<objs, bufs, chain, phase, frame, handler, raised, lastError, wc, ops, last>>

\* ------------------------------------------------------------ the hierarchy
\* template <typename Tag, typename Base = Exception> class Error : public Base
\* and the four typedefs.
\* Faulty variant: DataError declared with SystemError as its Base.
ParentDataUnderSystem(T) ==
    CASE T = "SystemError"  -> "Exception"
      [] T = "DataError"    -> "SystemError"
      [] T = "RuntimeError" -> "Exception"
      [] T = "Win32Error"   -> "SystemError"
      [] OTHER              -> "none"

\* Faulty variant: Win32Error declared without its Base argument.
ParentWin32Detached(T) ==
    CASE T = "SystemError"  -> "Exception"
      [] T = "DataError"    -> "Exception"
      [] T = "RuntimeError" -> "Exception"
      [] T = "Win32Error"   -> "Exception"
      [] OTHER              -> "none"

Parent(T) ==
    CASE T = "SystemError"  -> "Exception"
      [] T = "DataError"    -> "Exception"
      [] T = "RuntimeError" -> "Exception"
      [] T = "Win32Error"   -> "SystemError"
      [] OTHER              -> "none"

RECURSIVE IsA(_, _)
\* D is T or publicly derives from T.
IsA(D, T) ==
    IF D = T THEN TRUE
    ELSE IF Parent(D) = "none" THEN FALSE
    ELSE IsA(Parent(D), T)

\* A handler of type H catches an exception object of dynamic type D.
Catches(H, D) == IsA(D, H)

\* ------------------------------------------------------- context container
NoCtx == {}

\* Faulty variant: a lookup that yields a default-constructed DWORD when nothing is stored.
get_error_infoDefault(ctx, tag) ==
    IF \E en \in ctx : en.tag = tag
    THEN (CHOOSE en \in ctx : en.tag = tag).val
    ELSE 0

\* boost::get_error_info<Tag>(x): the value stored under the tag, or null.
get_error_info(ctx, tag) ==
    IF \E en \in ctx : en.tag = tag
    THEN (CHOOSE en \in ctx : en.tag = tag).val
    ELSE Absent

\* Faulty variant: a container that holds a single item.
set_infoOverwriteAll(ctx, tag, v) == {[tag |-> tag, val |-> v]}

\* boost operator<<(E const&, error_info<Tag,T> const&): store under the tag,
\* replacing what was stored under the same tag.
set_info(ctx, tag, v) == {en \in ctx : en.tag # tag} \cup {[tag |-> tag, val |-> v]}

\* ---------------------------------------------------------- message buffer
\* Faulty variant: a separator is inserted before the appended text.
ConcatSeparated(m, s) == m \o <<" ">> \o s

\* Faulty variant: the appended text replaces the message (= instead of +=).
ConcatReplace(m, s) == s

\* Exception::operator<<(const std::string&): m_message += msg.
Concat(m, s) == m \o s

\* Faulty variant: the copy refers to the source's buffer.
BufferOfShared(dst, src) == src

\* std::string m_message is a by-value member: an object constructed from
\* another has its own buffer.
BufferOf(dst, src) == dst

\* The buffer an object's message lives in.
Buf(o) == objs[o].buf

\* Exception::what(): the assembled message.
what(o) == bufs[Buf(o)]

Live(o) == objs[o].state = "live"

\* Storage that holds no object.
FreeObj(o) == [state |-> "free", kind |-> "none", ctx |-> NoCtx, buf |-> o]

NoChain == [obj |-> "none", static |-> "none", const |-> FALSE]
NoWc == [desc |-> <<>>, failCode |-> Absent, constructed |-> FALSE, read |-> Absent]
NoLast == [op |-> "none", obj |-> "none", src |-> "none", arg |-> <<>>, tag |-> "none",
           val |-> Absent, kind |-> "none", cond |-> FALSE, h |-> "none"]

Init ==
    /\ objs = [o \in Roles |-> FreeObj(o)]
    /\ bufs = [o \in Roles |-> <<>>]
    /\ chain = NoChain
    /\ phase = "build"
    /\ frame = 0
    /\ handler = "none"
    /\ raised = [kind |-> "none", chained |-> FALSE]
    /\ lastError = 0
    /\ wc = NoWc
    /\ ops = 0
    /\ last = NoLast

\* ------------------------------------------------------------- operators
HasAssertPrefix(m) ==
    /\ Len(m) >= Len(AssertPrefix)
    /\ SubSeq(m, 1, Len(AssertPrefix)) = AssertPrefix

\* Length of the text a call site supplied (bounds the appends).
UserLen(m) == IF HasAssertPrefix(m) THEN Len(m) - Len(AssertPrefix) ELSE Len(m)

\* Error(std::string msg) : Base(std::move(msg)) -- a fresh object of class K
\* with nothing attached, in the storage of role o.
ErrorCtor(o, K) == [state |-> "live", kind |-> K, ctx |-> NoCtx, buf |-> o]

\* Exception(const Exception& rhs), reached through the implicit copy
\* constructor of class T: the new object in role dst has dynamic type T, the
\* source's context and its own message buffer.
CopyCtor(dst, src, T) ==
    [state |-> "live", kind |-> T, ctx |-> objs[src].ctx, buf |-> BufferOf(dst, src)]

\* The type a named object is declared with: a local by its class, the
\* exception object by the handler's parameter type.
DeclaredType(o) == IF o = "x" THEN handler ELSE objs[o].kind

\* Static type and constness of the expression denoting o.
StaticOf(o) == IF chain.obj = o THEN chain.static ELSE DeclaredType(o)
ConstOf(o) == chain.obj = o /\ chain.const

\* The objects the running code can name.
Accessible(o) ==
    /\ Live(o)
    /\ \/ phase = "build" /\ o \in Locals
       \/ phase = "handling" /\ o = "x"

\* Stack unwinding: ~Exception() for the block's locals and temporaries.
Unwound(os) == [o \in Roles |-> IF o = "x" THEN os[o] ELSE FreeObj(o)]
UnwoundBufs(bs) == [o \in Roles |-> IF o = "x" THEN bs[o] ELSE <<>>]

\* --------------------------------------------------------------- actions
\* E e(m);  or the temporary E(m) that starts a throw expression.
New(K, m) ==
    /\ ops < MaxOps
    /\ ops' = ops + 1
    /\ phase = "build"
    /\ objs["e"].state = "free"
    /\ objs' = [objs EXCEPT !["e"] = ErrorCtor("e", K)]
    /\ bufs' = [bufs EXCEPT !["e"] = m]
    /\ chain' = [obj |-> "e", static |-> K, const |-> FALSE]
    /\ last' = [NoLast EXCEPT !.op = "New", !.obj = "e", !.kind = K, !.arg = m]
    /\ UNCHANGED <<phase, frame, handler, raised, lastError, wc>>

\* o << s  (Exception& Exception::operator<<(const std::string&)).
AppendMsg(o, s) ==
    /\ ops < MaxOps
    /\ ops' = ops + 1
    /\ Accessible(o)
    /\ ~ConstOf(o)
    /\ UserLen(what(o)) + Len(s) <= MaxLen
    /\ bufs' = [bufs EXCEPT ![Buf(o)] = Concat(@, s)]
    /\ chain' = [obj |-> o, static |-> "Exception", const |-> FALSE]
    /\ last' = [NoLast EXCEPT !.op = "Append", !.obj = o, !.arg = s]
    /\ UNCHANGED <<objs, phase, frame, handler, raised, lastError, wc>>

\* o << boost::error_info<tag, DWORD>(v): the boost template returns E const&
\* for the static type E of its left operand.
Attach(o, tag, v) ==
    /\ ops < MaxOps
    /\ ops' = ops + 1
    /\ Accessible(o)
    /\ objs' = [objs EXCEPT ![o].ctx = set_info(@, tag, v)]
    /\ chain' = [obj |-> o, static |-> StaticOf(o), const |-> TRUE]
    /\ last' = [NoLast EXCEPT !.op = "Attach", !.obj = o, !.tag = tag, !.val = v]
    /\ UNCHANGED <<bufs, phase, frame, handler, raised, lastError, wc>>

\* The end of a full-expression that was not thrown.
EndStatement ==
    /\ UNCHANGED ops
    /\ phase \in {"build", "handling"}
    /\ chain # NoChain
    /\ chain' = NoChain
    /\ last' = [NoLast EXCEPT !.op = "End"]
    /\ UNCHANGED <<objs, bufs, phase, frame, handler, raised, lastError, wc>>

\* T c(e);  T is e's class or a base of it (Exception's copy constructor is
\* public).
Copy(T) ==
    /\ ops < MaxOps
    /\ ops' = ops + 1
    /\ phase = "build"
    /\ Live("e")
    /\ objs["c"].state = "free"
    /\ IsA(objs["e"].kind, T)
    /\ objs' = [objs EXCEPT !["c"] = CopyCtor("c", "e", T)]
    /\ bufs' = [bufs EXCEPT ![BufferOf("c", "e")] = what("e")]
    /\ chain' = NoChain
    /\ last' = [NoLast EXCEPT !.op = "Copy", !.obj = "c", !.src = "e", !.kind = T]
    /\ UNCHANGED <<phase, frame, handler, raised, lastError, wc>>

\* E c(std::move(e));  the source is left moved-from, its text unspecified
\* (kept or emptied).
Move(keep) ==
    /\ ops < MaxOps
    /\ ops' = ops + 1
    /\ phase = "build"
    /\ Live("e")
    /\ objs["c"].state = "free"
    /\ objs' = [objs EXCEPT !["c"] = CopyCtor("c", "e", objs["e"].kind),
                            !["e"].state = "moved"]
    /\ bufs' = [bufs EXCEPT !["c"] = what("e"), !["e"] = IF keep THEN what("e") ELSE <<>>]
    /\ chain' = NoChain
    /\ last' = [NoLast EXCEPT !.op = "Move", !.obj = "c", !.src = "e"]
    /\ UNCHANGED <<phase, frame, handler, raised, lastError, wc>>

\* throw <expression denoting o>;  the exception object is copy-initialised
\* with the expression's static type, then the block is unwound.
Throw(o) ==
    /\ UNCHANGED ops
    /\ phase = "build"
    /\ o \in Locals
    /\ Live(o)
    /\ LET T == StaticOf(o)
           txt == what(o)
       IN /\ objs' = Unwound([objs EXCEPT !["x"] = CopyCtor("x", o, T)])
          /\ bufs' = UnwoundBufs([bufs EXCEPT ![BufferOf("x", o)] = txt])
          /\ last' = [NoLast EXCEPT !.op = "Throw", !.obj = "x", !.src = o, !.kind = T]
    /\ raised' = [kind |-> objs[o].kind, chained |-> chain.obj = o]
    /\ chain' = NoChain
    /\ phase' = "thrown"
    /\ frame' = 0
    /\ UNCHANGED <<handler, lastError, wc>>

\* CHECK(K, expr), d being the text of expr:
\* if (!(expr)) throw K("Assert failed: " #expr);
CHECK(K, cond, d) ==
    /\ UNCHANGED ops
    /\ phase = "build"
    /\ last' = [NoLast EXCEPT !.op = "CHECK", !.kind = K, !.cond = cond, !.arg = d]
    /\ IF cond
       THEN UNCHANGED <<objs, bufs, chain, phase, frame, handler, raised, lastError, wc>>
       ELSE /\ objs' = Unwound([objs EXCEPT !["x"] = ErrorCtor("x", K)])
            /\ bufs' = UnwoundBufs([bufs EXCEPT !["x"] = Concat(AssertPrefix, d)])
            /\ raised' = [kind |-> K, chained |-> FALSE]
            /\ chain' = NoChain
            /\ phase' = "thrown"
            /\ frame' = 0
            /\ UNCHANGED <<handler, lastError, wc>>

\* WIN_CHECK(expr), first step: expr, a Win32 call, is evaluated.  On failure
\* the call stores its error code with SetLastError.
WinCheckCall(ok, code, d) ==
    /\ UNCHANGED ops
    /\ phase = "build"
    /\ last' = [NoLast EXCEPT !.op = "WinCall", !.cond = ok, !.arg = d]
    /\ IF ok
       THEN UNCHANGED <<objs, bufs, chain, phase, frame, handler, raised, lastError, wc>>
       ELSE /\ lastError' = code
            /\ wc' = [NoWc EXCEPT !.desc = d, !.failCode = code]
            /\ phase' = "wincheck"
            /\ chain' = NoChain
            /\ UNCHANGED <<objs, bufs, frame, handler, raised>>

\* The left operand of <<: spire::common::Win32Error("Assert failed: " #expr).
\* The literal is converted to a std::string, which allocates; a runtime call
\* that succeeds may store 0 with SetLastError.
WinCheckConstruct(reset) ==
    /\ UNCHANGED ops
    /\ phase = "wincheck"
    /\ ~wc.constructed
    /\ objs' = [objs EXCEPT !["t"] = ErrorCtor("t", "Win32Error")]
    /\ bufs' = [bufs EXCEPT !["t"] = Concat(AssertPrefix, wc.desc)]
    /\ lastError' = IF reset THEN 0 ELSE lastError
    /\ wc' = [wc EXCEPT !.constructed = TRUE]
    /\ last' = [NoLast EXCEPT !.op = "WinConstruct", !.obj = "t", !.cond = reset]
    /\ UNCHANGED <<chain, phase, frame, handler, raised>>

\* The right operand of <<: Win32ErrorInfo(GetLastError()).  The two operands
\* of an overloaded operator<< call are evaluated in either order.
WinCheckGetLastError ==
    /\ UNCHANGED ops
    /\ phase = "wincheck"
    /\ wc.read = Absent
    /\ wc' = [wc EXCEPT !.read = lastError]
    /\ last' = [NoLast EXCEPT !.op = "WinRead", !.val = lastError]
    /\ UNCHANGED <<objs, bufs, chain, phase, frame, handler, raised, lastError>>

\* throw <Win32Error temporary> << <Win32ErrorInfo>;  the boost operator
\* returns Win32Error const&, so the exception object is a Win32Error copy.
WinCheckThrow ==
    /\ UNCHANGED ops
    /\ phase = "wincheck"
    /\ wc.constructed
    /\ wc.read # Absent
    /\ LET attached == [objs EXCEPT !["t"].ctx = set_info(@, "Win32ErrorInfo", wc.read)]
           txt == what("t")
       IN /\ objs' = Unwound([attached EXCEPT !["x"] =
                        [state |-> "live", kind |-> "Win32Error",
                         ctx |-> attached["t"].ctx, buf |-> BufferOf("x", "t")]])
          /\ bufs' = UnwoundBufs([bufs EXCEPT ![BufferOf("x", "t")] = txt])
    /\ raised' = [kind |-> "Win32Error", chained |-> TRUE]
    /\ chain' = NoChain
    /\ phase' = "thrown"
    /\ frame' = 0
    /\ wc' = NoWc
    /\ last' = [NoLast EXCEPT !.op = "WinThrow", !.obj = "x", !.val = wc.failCode,
                              !.arg = wc.desc]
    /\ UNCHANGED <<handler, lastError>>

\* The exception reaches a frame whose handler is catch (H& e): the handler
\* is entered if H is the object's class or a base of it, else the exception
\* passes the frame.
TryHandler(H) ==
    /\ UNCHANGED ops
    /\ phase = "thrown"
    /\ frame < MaxFrames
    /\ IF Catches(H, objs["x"].kind)
       THEN /\ phase' = "handling"
            /\ handler' = H
            /\ frame' = frame
            /\ last' = [NoLast EXCEPT !.op = "Catch", !.obj = "x", !.h = H]
       ELSE /\ phase' = "thrown"
            /\ handler' = "none"
            /\ frame' = frame + 1
            /\ last' = [NoLast EXCEPT !.op = "Pass", !.obj = "x", !.h = H]
    /\ UNCHANGED <<objs, bufs, chain, raised, lastError, wc>>

\* No frame is left: the exception is not caught.
Terminate ==
    /\ UNCHANGED ops
    /\ phase = "thrown"
    /\ frame = MaxFrames
    /\ phase' = "done"
    /\ objs' = [objs EXCEPT !["x"] = FreeObj("x")]
    /\ bufs' = [bufs EXCEPT !["x"] = <<>>]
    /\ last' = [NoLast EXCEPT !.op = "Terminate"]
    /\ UNCHANGED <<chain, frame, handler, raised, lastError, wc>>

\* throw;  inside a handler: the same exception object goes on to the next
\* frame.
Rethrow ==
    /\ UNCHANGED ops
    /\ phase = "handling"
    /\ phase' = "thrown"
    /\ frame' = frame + 1
    /\ handler' = "none"
    /\ chain' = NoChain
    /\ last' = [NoLast EXCEPT !.op = "Rethrow", !.obj = "x"]
    /\ UNCHANGED <<objs, bufs, raised, lastError, wc>>

\* throw <expression denoting the caught object>;  inside a handler: a new
\* exception object is copied from it with the expression's static type and
\* replaces it.
ThrowFromHandler ==
    /\ UNCHANGED ops
    /\ phase = "handling"
    /\ LET T == StaticOf("x")
       IN /\ objs' = [objs EXCEPT !["x"].kind = T]
          /\ last' = [NoLast EXCEPT !.op = "Throw", !.obj = "x", !.src = "x", !.kind = T]
    /\ raised' = [kind |-> objs["x"].kind, chained |-> FALSE]
    /\ phase' = "thrown"
    /\ frame' = frame + 1
    /\ handler' = "none"
    /\ chain' = NoChain
    /\ UNCHANGED <<bufs, lastError, wc>>

\* The handler returns: the exception object is destroyed.
HandlerDone ==
    /\ UNCHANGED ops
    /\ phase = "handling"
    /\ phase' = "done"
    /\ handler' = "none"
    /\ chain' = NoChain
    /\ objs' = [objs EXCEPT !["x"] = FreeObj("x")]
    /\ bufs' = [bufs EXCEPT !["x"] = <<>>]
    /\ last' = [NoLast EXCEPT !.op = "HandlerDone"]
    /\ UNCHANGED <<frame, raised, lastError, wc>>

Next ==
    \/ \E K \in Kinds, m \in Strs : New(K, m)
    \/ \E o \in Roles, s \in Strs : AppendMsg(o, s)
    \/ \E o \in Roles, tag \in Tags, v \in AttachVals : Attach(o, tag, v)
    \/ EndStatement
    \/ \E T \in Types : Copy(T)
    \/ \E keep \in BOOLEAN : Move(keep)
    \/ \E o \in Locals : Throw(o)
    \/ \E K \in Kinds, cond \in BOOLEAN, d \in Descs : CHECK(K, cond, d)
    \/ \E ok \in BOOLEAN, code \in FailCodes, d \in Descs : WinCheckCall(ok, code, d)
    \/ \E reset \in BOOLEAN : WinCheckConstruct(reset)
    \/ WinCheckGetLastError
    \/ WinCheckThrow
    \/ \E H \in Types : TryHandler(H)
    \/ Terminate
    \/ Rethrow
    \/ ThrowFromHandler
    \/ HandlerDone

Spec == Init /\ [][Next]_vars

\* ------------------------------------------------------------- properties
\* p is a prefix of m.
IsPrefix(p, m) == Len(p) <= Len(m) /\ SubSeq(m, 1, Len(p)) = p

\* The step just taken is the operation op.
Did(op) == last.op = op

\* C1: an error constructed with message m1 reports m1, and every append of
\* a text s makes the message the previous message immediately followed by s
\* (nothing inserted); so after a chain of appends the message is the
\* initial message followed by the appended texts in order.
C1_AppendConcatenates ==
    [][\A o \in Roles : last'.obj = o =>
         /\ last'.op = "New" => what(o)' = last'.arg
         /\ last'.op = "Append" => what(o)' = what(o) \o last'.arg]_vars

\* C1 witness: "a" was constructed and "b", then "a" were appended.
C1_Witness ==
    /\ Did("Append")
    /\ last.arg = <<"a">>
    /\ ops = 3
    /\ what(last.obj) = <<"a", "b", "a">>

\* C2: an append to one object leaves the message of every other object
\* unchanged, in particular that of the object it was copied from or to.
C2_CopyIndependent ==
    [][last'.op = "Append" =>
         \A o \in Roles \ {last'.obj} : what(o)' = what(o)]_vars

\* C2 witness: the copy has been appended to and now differs from the
\* original, which is still alive.
C2_Witness ==
    /\ Did("Append")
    /\ last.obj = "c"
    /\ last.arg # <<>>
    /\ Live("e")
    /\ Live("c")
    /\ what("c") = what("e") \o last.arg

\* C3: an exception object of class SystemError, DataError or RuntimeError
\* enters a handler exactly when the handler is for its own class or for
\* Exception; it passes the handlers for the two sibling classes.
C3_SiblingsExclusive ==
    (last.op \in {"Catch", "Pass"}
       /\ objs["x"].kind \in {"SystemError", "DataError", "RuntimeError"})
    => (Did("Catch") <=> last.h \in {objs["x"].kind, "Exception"})

\* C3 witness: a SystemError has passed a DataError handler.
C3_Witness ==
    /\ Did("Pass")
    /\ objs["x"].kind = "SystemError"
    /\ last.h = "DataError"

\* C4: a Win32Error enters the handlers for Win32Error, SystemError and
\* Exception and passes those for DataError and RuntimeError; a SystemError
\* passes a Win32Error handler.
C4_Win32Widening ==
    last.op \in {"Catch", "Pass"} =>
       /\ objs["x"].kind = "Win32Error" =>
            (Did("Catch") <=> last.h \in {"Win32Error", "SystemError", "Exception"})
       /\ (objs["x"].kind = "SystemError" /\ last.h = "Win32Error") => Did("Pass")

\* C4 witness: a Win32Error has entered a SystemError handler.
C4_Witness ==
    /\ Did("Catch")
    /\ objs["x"].kind = "Win32Error"
    /\ last.h = "SystemError"

\* C5: CHECK with a false condition leaves the block with an exception
\* object of exactly the given class whose message is "Assert failed: "
\* followed by the expression text and which carries no context; with a true
\* condition it changes nothing.
C5_Check ==
    [][last'.op = "CHECK" =>
         IF last'.cond
         THEN UNCHANGED <<objs, bufs, chain, phase, frame, handler, raised, lastError, wc, ops>>
         ELSE /\ phase' = "thrown"
              /\ Live("x")'
              /\ objs'["x"].kind = last'.kind
              /\ objs'["x"].ctx = {}
              /\ what("x")' = <<"A", "s", "s", "e", "r", "t", " ", "f", "a", "i", "l",
                                 "e", "d", ":", " ">> \o last'.arg]_vars

\* C5 witness: CHECK(RuntimeError, x>0) has failed.
C5_Witness ==
    /\ Did("CHECK")
    /\ ~last.cond
    /\ phase = "thrown"
    /\ objs["x"].kind = "RuntimeError"
    /\ what("x") = <<"A", "s", "s", "e", "r", "t", " ", "f", "a", "i", "l",
                     "e", "d", ":", " ", "x", ">", "0">>

\* C6: the exception WIN_CHECK throws is a Win32Error (so a SystemError
\* handler catches it) with the message "Assert failed: " followed by the
\* call's text, and the Win32ErrorInfo attached to it is the code the failing
\* call stored.
C6_WinCheckCarriesCode ==
    Did("WinThrow") =>
       /\ objs["x"].kind = "Win32Error"
       /\ Catches("SystemError", objs["x"].kind)
       /\ what("x") = <<"A", "s", "s", "e", "r", "t", " ", "f", "a", "i", "l",
                        "e", "d", ":", " ">> \o last.arg
       /\ get_error_info(objs["x"].ctx, "Win32ErrorInfo") = last.val

\* C7: a lookup under a tag with no entry returns the null result, which is
\* no DWORD value; after a value is attached under a tag a lookup under that
\* tag returns it.
C7_LookupByTag ==
    \A o \in Roles : Live(o) =>
       /\ \A tag \in Tags :
            (~ \E en \in objs[o].ctx : en.tag = tag) =>
               /\ get_error_info(objs[o].ctx, tag) = Absent
               /\ get_error_info(objs[o].ctx, tag) \notin Codes
       /\ (Did("Attach") /\ last.obj = o) =>
            get_error_info(objs[o].ctx, last.tag) = last.val

\* C7 witness: 0 is attached under Win32ErrorInfo and nothing under OtherInfo.
C7_Witness ==
    /\ Did("Attach")
    /\ last.tag = "Win32ErrorInfo"
    /\ last.val = 0
    /\ get_error_info(objs[last.obj].ctx, "Win32ErrorInfo") = 0
    /\ get_error_info(objs[last.obj].ctx, "OtherInfo") = Absent

\* C8: in every step the message of an object that stays alive keeps its
\* previous text as a prefix, and an object made by a copy, a move or a throw
\* starts with the message of its source.
C8_MessageOnlyGrows ==
    [][/\ \A o \in Roles : (Live(o) /\ Live(o)') => IsPrefix(what(o), what(o)')
       /\ \A o \in Roles : (last'.op \in {"Copy", "Move", "Throw"} /\ last'.obj = o) =>
            IsPrefix(what(last'.src), what(o)')]_vars

\* C8 witness: a handler has appended to an exception that was appended to
\* before it was thrown.
C8_Witness ==
    /\ Did("Append")
    /\ last.obj = "x"
    /\ phase = "handling"
    /\ last.arg # <<>>
    /\ Len(what("x")) >= 3

\* C9: attaching under a tag leaves the message and the lookups under every
\* other tag unchanged; appending leaves the attached context unchanged.
C9_ContextIndependent ==
    [][\A o \in Roles : last'.obj = o =>
         /\ last'.op = "Attach" =>
              /\ what(o)' = what(o)
              /\ \A U \in Tags \ {last'.tag} :
                   get_error_info(objs'[o].ctx, U) = get_error_info(objs[o].ctx, U)
         /\ last'.op = "Append" => objs'[o].ctx = objs[o].ctx]_vars

\* C9 witness: a second tag has been attached to an object that has a
\* message and a value under the first tag.
C9_Witness ==
    /\ Did("Attach")
    /\ what(last.obj) # <<>>
    /\ \A tag \in Tags : get_error_info(objs[last.obj].ctx, tag) # Absent

\* C10: an exception thrown from a chain of << on an object of class K
\* enters exactly the handlers that catch K.
C10_ChainKeepsKind ==
    (last.op \in {"Catch", "Pass"} /\ raised.chained)
    => (Did("Catch") <=> Catches(last.h, raised.kind))
====
